---- MODULE Spec2Model ----
(***************************************************************************)
(* Sai Star Booking Manager (src/app.py): the booking sheet, the Streamlit *)
(* sessions that load it, validate a create / update / delete against the  *)
(* loaded copy and write the whole copy back.                              *)
(*                                                                         *)
(* Representation choices:                                                 *)
(*  - an "HH:MM" string is the sequence of its 5 character codes, so that  *)
(*    the comparisons of the code are the lexical comparisons of Python;   *)
(*  - a date string "%Y-%m-%d" is the triple <<year, month, day>>: the     *)
(*    code only tests these strings for equality, and the zero-padded      *)
(*    format is injective on dates;                                        *)
(*  - total_hours (a float, hours) is kept in sixtieths of an hour: every  *)
(*    duration is a whole number of minutes, and on the 30-minute grid the *)
(*    float is a multiple of 0.5, which binary floating point holds        *)
(*    exactly, as it does the product with an integer rate;                *)
(*  - None is the empty sequence <<>> for edit_id / exclude_id (an id is   *)
(*    <<id>>) and the string "None" for the message fields;                *)
(*  - the column dt_obj that main() adds to the loaded frame (line 138) is *)
(*    recomputed from booking_date on every run and read by no operation   *)
(*    below; it is left out of the rows;                                   *)
(*  - retired is a history variable: no code reads or writes it.           *)
(***************************************************************************)
EXTENDS Integers, Sequences, FiniteSets, TLC

VARIABLES
    sheet,          \* the worksheet "Sheet1": the persisted record set
    df,             \* df[s]: the frame session s loaded in its current run
    pc,             \* pc[s]: where session s is in its script run
    session_state,  \* session_state[s]: st.session_state of session s
    shown,          \* shown[s]: what the last run of s put on the screen
    retired,        \* history: the ids Delete has removed so far
    args,           \* arguments of a direct call of a helper function
    ret             \* its return value

vars == <<sheet, df, pc, session_state, shown, retired, args, ret>>

\* ------------------------------------------------------------- bounds

\* Rows a sheet may hold: Create is not offered beyond it.
MaxBookings == 2

\* Successful creates a session may make (form_id is an unbounded int).
MaxForms == 3

\* ------------------------------------------------------------ strings

Digit(d) == 48 + d

\* datetime.strftime("%I:%M"): the hour on the 12-hour clock.
strftime_IM(minutes) ==
    LET h == IF (minutes \div 60) % 12 = 0 THEN 12 ELSE (minutes \div 60) % 12
        m == minutes % 60
    IN  <<Digit(h \div 10), Digit(h % 10), 58, Digit(m \div 10), Digit(m % 10)>>

\* datetime.strftime("%H:%M") of a time of day given in minutes.
strftime_HM(minutes) ==
    LET h == minutes \div 60
        m == minutes % 60
    IN  <<Digit(h \div 10), Digit(h % 10), 58, Digit(m \div 10), Digit(m % 10)>>

\* datetime.strptime(s, "%H:%M"), as minutes since midnight.
strptime_HM(s) ==
    ((s[1] - 48) * 10 + (s[2] - 48)) * 60 + (s[4] - 48) * 10 + (s[5] - 48)

\* Python's str.__lt__: code points, left to right; a proper prefix is less.
RECURSIVE str_lt(_, _)
str_lt(a, b) ==
    IF b = <<>> THEN FALSE
    ELSE IF a = <<>> THEN TRUE
    ELSE IF Head(a) # Head(b) THEN Head(a) < Head(b)
    ELSE str_lt(Tail(a), Tail(b))

str_gt(a, b) == str_lt(b, a)

str_ge(a, b) == ~str_lt(a, b)

\* date.strftime("%Y-%m-%d").
strftime_Ymd(d) == <<d.year, d.month, d.day>>

\* int(x) of the float num / den: truncation toward zero.
int_trunc(num, den) ==
    IF num >= 0 THEN num \div den ELSE -((-num) \div den)

\* --------------------------------------------------------- time slots

\* get_time_slots: "00:00" .. "23:30" in 30-minute steps.
RECURSIVE slots_from(_, _)
slots_from(start, end) ==
    IF start <= end
    THEN <<strftime_HM(start)>> \o slots_from(start + 30, end)
    ELSE <<>>

get_time_slots == slots_from(0, 23 * 60 + 30)

\* time_slots[i] of Python (0-based).
SlotAt(i) == get_time_slots[i + 1]

\* ------------------------------------------------------------ records

EXPECTED_HEADERS ==
    {"id", "booking_date", "start_time", "end_time", "total_hours",
     "rate_per_hour", "total_charges", "booked_by", "mobile_number",
     "advance_paid", "advance_mode", "balance_paid", "balance_mode",
     "remaining_due", "remarks"}

PAYMENT_MODES == <<"Cash", "Gpay", "Pending", "Cash+Gpay">>

\* pd.DataFrame(columns=EXPECTED_HEADERS): a frame with no rows.
EmptyFrame == <<>>

\* df['id'] as a set.
Ids(frame) == {frame[i].id : i \in 1..Len(frame)}

\* A cell pd.to_numeric cannot read as a number (text, an empty cell): with
\* errors='coerce' it becomes NaN. Every such cell is this one value, which
\* no id or amount of a booking takes.
NaN == -999999

\* Line 66 and 68-70: pd.to_numeric(errors='coerce').fillna(0).astype(int)
\* of one cell holding an integer or no number.
to_numeric_int(cell) == IF cell = NaN THEN 0 ELSE cell

\* get_data's type conversion of one row (lines 66-72).
convert_row(row) ==
    [row EXCEPT !.id = to_numeric_int(row.id),
                !.rate_per_hour = to_numeric_int(row.rate_per_hour),
                !.total_charges = to_numeric_int(row.total_charges),
                !.advance_paid = to_numeric_int(row.advance_paid),
                !.balance_paid = to_numeric_int(row.balance_paid),
                !.remaining_due = to_numeric_int(row.remaining_due)]

\* get_data: conn_read is the outcome of conn.read, [raised, data]. An
\* exception anywhere in the try block yields the empty frame.
get_data(conn_read) ==
    IF conn_read.raised THEN EmptyFrame
    ELSE IF conn_read.data = <<>> THEN EmptyFrame
    ELSE [i \in 1..Len(conn_read.data) |-> convert_row(conn_read.data[i])]

\* save_data keeping the rows of the worksheet whose id the frame lacks.
save_data_merged(frame) ==
    frame \o SelectSeq(sheet, LAMBDA r : r.id \notin Ids(frame))

\* save_data: conn.update writes the whole frame over the worksheet.
save_data(frame) == frame

\* check_overlap testing only whether an existing booking starts inside the
\* candidate: it misses an existing booking that started earlier.
check_overlap_starts_inside(frame, date_str, start_str, end_str, exclude_id) ==
    \E i \in 1..Len(frame) :
        /\ frame[i].booking_date = date_str
        /\ exclude_id = <<>> \/ frame[i].id # exclude_id[1]
        /\ str_ge(frame[i].start_time, start_str)
        /\ str_lt(frame[i].start_time, end_str)

\* check_overlap with closed intervals: a booking that ends where the
\* candidate starts counts as an overlap.
check_overlap_closed(frame, date_str, start_str, end_str, exclude_id) ==
    \E i \in 1..Len(frame) :
        /\ frame[i].booking_date = date_str
        /\ exclude_id = <<>> \/ frame[i].id # exclude_id[1]
        /\ ~str_gt(frame[i].start_time, end_str)
        /\ str_ge(frame[i].end_time, start_str)

\* check_overlap that never drops the booking being edited.
check_overlap_no_exclude(frame, date_str, start_str, end_str, exclude_id) ==
    \E i \in 1..Len(frame) :
        /\ frame[i].booking_date = date_str
        /\ str_lt(frame[i].start_time, end_str)
        /\ str_gt(frame[i].end_time, start_str)

\* check_overlap(df, date_str, start_str, end_str, exclude_id=None).
check_overlap(frame, date_str, start_str, end_str, exclude_id) ==
    IF frame = <<>> THEN FALSE
    ELSE
      LET on_day == SelectSeq(frame, LAMBDA r : r.booking_date = date_str)
          day_bookings ==
              IF exclude_id # <<>>
              THEN SelectSeq(on_day, LAMBDA r : r.id # exclude_id[1])
              ELSE on_day
      IN  IF day_bookings = <<>> THEN FALSE
          ELSE
            LET overlap ==
                  SelectSeq(day_bookings,
                            LAMBDA r : /\ str_lt(r.start_time, end_str)
                                       /\ str_gt(r.end_time, start_str))
            IN  overlap # <<>>

\* get_next_id numbering by the count of rows.
get_next_id_by_count(frame) == Len(frame) + 1

\* get_next_id(df).
get_next_id(frame) ==
    IF frame = <<>> THEN 1
    ELSE (CHOOSE m \in Ids(frame) : \A i \in Ids(frame) : i <= m) + 1

\* The add form rounding the charges half up instead of cutting them.
new_row_half_up(frame, f) ==
    LET dur == strptime_HM(f.end) - strptime_HM(f.start)
        tot == (dur * f.rate + 30) \div 60
        rem == tot - f.adv - f.bal
    IN  [id |-> get_next_id(frame), booking_date |-> strftime_Ymd(f.date),
         start_time |-> f.start, end_time |-> f.end,
         total_hours |-> dur,
         rate_per_hour |-> f.rate,
         total_charges |-> tot,
         booked_by |-> f.name, mobile_number |-> f.mobile,
         advance_paid |-> f.adv, advance_mode |-> f.mode,
         balance_paid |-> f.bal, balance_mode |-> f.mode,
         remaining_due |-> rem, remarks |-> f.remarks]

\* The row the add form appends (lines 265-280); f holds the widget values.
new_row(frame, f) ==
    LET dur == strptime_HM(f.end) - strptime_HM(f.start)
        tot == int_trunc(dur * f.rate, 60)
        rem == tot - f.adv - f.bal
    IN  [id |-> get_next_id(frame), booking_date |-> strftime_Ymd(f.date),
         start_time |-> f.start, end_time |-> f.end,
         total_hours |-> dur,
         rate_per_hour |-> f.rate,
         total_charges |-> tot,
         booked_by |-> f.name, mobile_number |-> f.mobile,
         advance_paid |-> f.adv, advance_mode |-> f.mode,
         balance_paid |-> f.bal, balance_mode |-> f.mode,
         remaining_due |-> rem, remarks |-> f.remarks]

\* The edit form keeping the stored remaining_due instead of recomputing it.
edited_row_stale_due(record, f) ==
    LET dur == strptime_HM(f.end) - strptime_HM(f.start)
        tot == int_trunc(dur * f.rate, 60)
    IN  [record EXCEPT !.booking_date = strftime_Ymd(f.date),
                       !.booked_by = f.name,
                       !.mobile_number = f.mobile,
                       !.start_time = f.start,
                       !.end_time = f.end,
                       !.total_hours = dur,
                       !.rate_per_hour = f.rate,
                       !.total_charges = tot,
                       !.advance_paid = f.adv,
                       !.balance_paid = f.bal,
                       !.advance_mode = f.mode,
                       !.remarks = f.remarks]

\* The edit form keeping the stored total_charges instead of recomputing it.
edited_row_stale_charges(record, f) ==
    LET dur == strptime_HM(f.end) - strptime_HM(f.start)
        tot == record.total_charges
        rem == tot - f.adv - f.bal
    IN  [record EXCEPT !.booking_date = strftime_Ymd(f.date),
                       !.booked_by = f.name,
                       !.mobile_number = f.mobile,
                       !.start_time = f.start,
                       !.end_time = f.end,
                       !.total_hours = dur,
                       !.rate_per_hour = f.rate,
                       !.advance_paid = f.adv,
                       !.balance_paid = f.bal,
                       !.advance_mode = f.mode,
                       !.remaining_due = rem,
                       !.remarks = f.remarks]

\* The row the edit form writes over record (lines 203-221): every column
\* but id and balance_mode.
edited_row(record, f) ==
    LET dur == strptime_HM(f.end) - strptime_HM(f.start)
        tot == int_trunc(dur * f.rate, 60)
        rem == tot - f.adv - f.bal
    IN  [record EXCEPT !.booking_date = strftime_Ymd(f.date),
                       !.booked_by = f.name,
                       !.mobile_number = f.mobile,
                       !.start_time = f.start,
                       !.end_time = f.end,
                       !.total_hours = dur,
                       !.rate_per_hour = f.rate,
                       !.total_charges = tot,
                       !.advance_paid = f.adv,
                       !.balance_paid = f.bal,
                       !.advance_mode = f.mode,
                       !.remaining_due = rem,
                       !.remarks = f.remarks]

\* Lines 152-174: the values the edit form shows for record before the
\* operator changes any: the stored date, names, amounts and remarks, the
\* stored times (index 40 and 42 when either is no slot), the stored
\* advance_mode ("Cash" when it is no payment mode).
edit_form_defaults(record) ==
    LET in_slots(t) == \E i \in 1..Len(get_time_slots) : get_time_slots[i] = t
        found == in_slots(record.start_time) /\ in_slots(record.end_time)
        is_mode == \E i \in 1..Len(PAYMENT_MODES) :
                       PAYMENT_MODES[i] = record.advance_mode
    IN  [date |-> [year |-> record.booking_date[1],
                   month |-> record.booking_date[2],
                   day |-> record.booking_date[3]],
         name |-> record.booked_by,
         mobile |-> record.mobile_number,
         start |-> IF found THEN record.start_time ELSE SlotAt(40),
         end |-> IF found THEN record.end_time ELSE SlotAt(42),
         rate |-> record.rate_per_hour,
         adv |-> record.advance_paid,
         bal |-> record.balance_paid,
         mode |-> IF is_mode THEN record.advance_mode ELSE "Cash",
         remarks |-> record.remarks]

\* df[df['id'] == edit_id]: the rows the edit screen looks up.
rows_with_id(frame, id) == SelectSeq(frame, LAMBDA r : r.id = id)

\* df[df['id'] > edit_id]: Delete keeping the rows above the id only.
rows_without_id_above(frame, id) == SelectSeq(frame, LAMBDA r : r.id > id)

\* df[df['id'] != edit_id]: what Delete keeps.
rows_without_id(frame, id) == SelectSeq(frame, LAMBDA r : r.id # id)

\* df.index[df['id'] == edit_id][0]: the first row with the id.
first_index(frame, id) ==
    CHOOSE i \in 1..Len(frame) :
        /\ frame[i].id = id
        /\ \A j \in 1..(i - 1) : frame[j].id # id

\* ----------------------------------------------------------- sessions

Sessions == {1, 2}

\* init_session_state (lines 40-52).
init_session_state ==
    [form_id |-> 0, expand_new |-> FALSE, edit_mode |-> FALSE,
     edit_id |-> <<>>, success_msg |-> "None"]

\* Line 144: the edit screen is drawn, otherwise the grid screen.
edit_screen(s) ==
    session_state[s].edit_mode /\ session_state[s].edit_id # <<>>

\* A run of the script is in progress and its frame is loaded.
running(s) == pc[s] \in {"run_event", "run_rerun"}

\* The run ends: its frame is dropped; after st.rerun() the next run starts
\* by itself, with no widget event.
end_run(s, rerun) ==
    /\ pc' = [pc EXCEPT ![s] = IF rerun THEN "rerun" ELSE "idle"]
    /\ df' = [df EXCEPT ![s] = EmptyFrame]

\* Lines 289-291: the grid screen shows and clears success_msg.
show_success(ss) == [ss EXCEPT !.success_msg = "None"]

\* ------------------------------------------------------------ actions

\* Lines 133-134: a run starts (a widget event, or the rerun a handler asked
\* for) and loads the sheet; conn.read returns the sheet or raises.
GetData(s) ==
    /\ pc[s] \in {"idle", "rerun"}
    /\ \E raised \in BOOLEAN :
         df' = [df EXCEPT ![s] =
                  get_data([raised |-> raised,
                            data |-> IF raised THEN <<>> ELSE sheet])]
    /\ pc' = [pc EXCEPT ![s] = IF pc[s] = "idle" THEN "run_event"
                                                 ELSE "run_rerun"]
    /\ shown' = [shown EXCEPT ![s] = "None"]
    /\ UNCHANGED <<sheet, session_state, retired, args, ret>>

\* Line 146: df[df['id'] == edit_id].iloc[0] with no such row raises
\* IndexError; nothing catches it and the run stops there.
EditLookupRaises(s) ==
    /\ running(s)
    /\ edit_screen(s)
    /\ rows_with_id(df[s], session_state[s].edit_id[1]) = <<>>
    /\ shown' = [shown EXCEPT ![s] = "IndexError"]
    /\ end_run(s, FALSE)
    /\ UNCHANGED <<sheet, session_state, retired, args, ret>>

\* The edit form is drawn and no button of it was pressed.
EditRender(s) ==
    /\ pc[s] = "run_rerun"
    /\ edit_screen(s)
    /\ rows_with_id(df[s], session_state[s].edit_id[1]) # <<>>
    /\ end_run(s, FALSE)
    /\ UNCHANGED <<sheet, session_state, shown, retired, args, ret>>

\* Lines 183-186: Cancel.
EditCancel(s) ==
    /\ pc[s] = "run_event"
    /\ edit_screen(s)
    /\ rows_with_id(df[s], session_state[s].edit_id[1]) # <<>>
    /\ session_state' = [session_state EXCEPT ![s].edit_mode = FALSE,
                                              ![s].edit_id = <<>>]
    /\ end_run(s, TRUE)
    /\ UNCHANGED <<sheet, shown, retired, args, ret>>

\* Lines 188-194: Delete.
EditDelete(s) ==
    /\ pc[s] = "run_event"
    /\ edit_screen(s)
    /\ LET edit_id == session_state[s].edit_id[1]
       IN  /\ rows_with_id(df[s], edit_id) # <<>>
           /\ sheet' = save_data(rows_without_id(df[s], edit_id))
    /\ session_state' = [session_state EXCEPT
                           ![s].success_msg = "Record Deleted",
                           ![s].edit_mode = FALSE,
                           ![s].edit_id = <<>>]
    /\ end_run(s, TRUE)
    /\ UNCHANGED <<shown, args, ret>>

\* Lines 196-201: what Save Changes answers for the widget values f:
\* "None" when the change is admitted.
edit_verdict(frame, edit_id, f) ==
    IF str_ge(f.start, f.end) THEN "End time must be after Start"
    ELSE IF check_overlap(frame, strftime_Ymd(f.date), f.start, f.end,
                          <<edit_id>>)
    THEN "Overlap"
    ELSE "None"

\* Lines 208-221: the frame with the first row of the id rewritten.
edited_frame(frame, edit_id, f) ==
    LET idx == first_index(frame, edit_id)
    IN  [frame EXCEPT ![idx] = edited_row(frame[idx], f)]

\* Lines 196-227: Save Changes.
EditSave(s, f) ==
    /\ pc[s] = "run_event"
    /\ edit_screen(s)
    /\ LET edit_id == session_state[s].edit_id[1]
           verdict == edit_verdict(df[s], edit_id, f)
       IN  /\ rows_with_id(df[s], edit_id) # <<>>
           /\ IF verdict # "None"
              THEN /\ shown' = [shown EXCEPT ![s] = verdict]
                   /\ end_run(s, FALSE)
                   /\ UNCHANGED <<sheet, session_state>>
              ELSE /\ sheet' = save_data(edited_frame(df[s], edit_id, f))
                   /\ session_state' = [session_state EXCEPT
                                          ![s].success_msg = "Changes Saved",
                                          ![s].edit_mode = FALSE,
                                          ![s].edit_id = <<>>]
                   /\ end_run(s, TRUE)
                   /\ UNCHANGED shown
    /\ UNCHANGED <<retired, args, ret>>

\* Confirm Booking testing the overlap before the order of the interval.
add_verdict_overlap_first(frame, f) ==
    IF check_overlap(frame, strftime_Ymd(f.date), f.start, f.end, <<>>)
    THEN "Overlap"
    ELSE IF str_ge(f.start, f.end) THEN "End time must be after Start"
    ELSE "None"

\* Confirm Booking refusing payments above the charges.
add_verdict_blocks_overpayment(frame, f) ==
    IF str_ge(f.start, f.end) THEN "End time must be after Start"
    ELSE IF check_overlap(frame, strftime_Ymd(f.date), f.start, f.end, <<>>)
    THEN "Overlap"
    ELSE IF f.adv + f.bal > new_row(frame, f).total_charges
    THEN "Overpayment"
    ELSE "None"

\* Lines 258-263: what Confirm Booking answers for the widget values f.
add_verdict(frame, f) ==
    IF str_ge(f.start, f.end) THEN "End time must be after Start"
    ELSE IF check_overlap(frame, strftime_Ymd(f.date), f.start, f.end, <<>>)
    THEN "Overlap"
    ELSE "None"

\* The new row appended to the worksheet as it is now, not to the frame.
added_frame_on_sheet(frame, f) == Append(sheet, new_row(frame, f))

\* Line 281: pd.concat([df, new_row], ignore_index=True).
added_frame(frame, f) == Append(frame, new_row(frame, f))

\* Confirm Booking writing the new row before it validates it.
AddSubmit_saves_first(s, f) ==
    /\ pc[s] = "run_event"
    /\ ~edit_screen(s)
    /\ Len(df[s]) < MaxBookings
    /\ session_state[s].form_id < MaxForms
    /\ sheet' = save_data(added_frame(df[s], f))
    /\ LET verdict == add_verdict(df[s], f)
       IN  IF verdict # "None"
           THEN /\ shown' = [shown EXCEPT ![s] = verdict]
                /\ session_state' =
                     [session_state EXCEPT ![s] = show_success(@)]
                /\ end_run(s, FALSE)
           ELSE /\ session_state' = [session_state EXCEPT
                                       ![s].form_id = @ + 1,
                                       ![s].expand_new = FALSE,
                                       ![s].success_msg = "Booking Added"]
                /\ end_run(s, TRUE)
                /\ UNCHANGED shown
    /\ UNCHANGED <<retired, args, ret>>

\* Lines 258-291: Confirm Booking. A refused booking leaves the script
\* running on to the grid, which shows and clears success_msg.
AddSubmit(s, f) ==
    /\ pc[s] = "run_event"
    /\ ~edit_screen(s)
    /\ LET verdict == add_verdict(df[s], f)
       IN  IF verdict # "None"
           THEN /\ shown' = [shown EXCEPT ![s] = verdict]
                /\ session_state' =
                     [session_state EXCEPT ![s] = show_success(@)]
                /\ end_run(s, FALSE)
                /\ UNCHANGED sheet
           ELSE /\ Len(df[s]) < MaxBookings
                /\ session_state[s].form_id < MaxForms
                /\ sheet' = save_data(added_frame(df[s], f))
                /\ session_state' = [session_state EXCEPT
                                       ![s].form_id = @ + 1,
                                       ![s].expand_new = FALSE,
                                       ![s].success_msg = "Booking Added"]
                /\ end_run(s, TRUE)
                /\ UNCHANGED shown
    /\ UNCHANGED <<retired, args, ret>>

\* Lines 338-343 and 369-374: a row of the upcoming or of the history grid is
\* clicked (every row of the frame is in one of the two grids).
SelectRow(s, selected_db_id) ==
    /\ pc[s] = "run_event"
    /\ ~edit_screen(s)
    /\ selected_db_id \in Ids(df[s])
    /\ session_state' = [session_state EXCEPT
                           ![s] = [show_success(@) EXCEPT
                                     !.edit_mode = TRUE,
                                     !.edit_id = <<selected_db_id>>]]
    /\ end_run(s, TRUE)
    /\ UNCHANGED <<sheet, shown, retired, args, ret>>

\* The grid screen is drawn and the run handles no booking event.
GridRender(s) ==
    /\ running(s)
    /\ ~edit_screen(s)
    /\ session_state' = [session_state EXCEPT ![s] = show_success(@)]
    /\ end_run(s, FALSE)
    /\ UNCHANGED <<sheet, shown, retired, args, ret>>

\* ----------------------------------------------------- specifications

\* The dates the date inputs are set to.
Date(day) == [year |-> 2024, month |-> 1, day |-> day]

\* What the operator enters: the widget values of either form.
Forms(dates, slots, rates, advs, bals) ==
    [date : dates, start : slots, end : slots, rate : rates, adv : advs,
     bal : bals, name : {"Ravi"}, mobile : {"9000000001"}, mode : {"Cash"},
     remarks : {""}]

\* 20:00 .. 21:30, around the add form's defaults (index 40 and 42).
EveningSlots == {SlotAt(i) : i \in 40..43}

BookingForms ==
    Forms({Date(10), Date(11)}, EveningSlots, {1000}, {0}, {0})

Init ==
    /\ sheet = <<>>
    /\ df = [s \in Sessions |-> EmptyFrame]
    /\ pc = [s \in Sessions |-> "idle"]
    /\ session_state = [s \in Sessions |-> init_session_state]
    /\ shown = [s \in Sessions |-> "None"]
    /\ retired = {}
    /\ args = <<>>
    /\ ret = <<>>

\* One run of session s, the operator entering a form of forms; with
\* history, the id a Delete removes is recorded in retired.
Run(s, forms, history) ==
    \/ GetData(s)
    \/ EditLookupRaises(s)
    \/ EditRender(s)
    \/ EditCancel(s)
    \/ /\ EditDelete(s)
       /\ retired' = IF history
                     THEN retired \cup {session_state[s].edit_id[1]}
                     ELSE retired
    \/ \E f \in forms : EditSave(s, f)
    \/ \E f \in forms : AddSubmit(s, f)
    \/ \E id \in Ids(df[s]) : SelectRow(s, id)
    \/ GridRender(s)

\* A single session works on the sheet.
Next == Run(1, BookingForms, FALSE)

Spec == Init /\ [][Next]_vars

\* The same on one date, with the history of deleted ids kept.
HistoryForms == Forms({Date(10)}, EveningSlots, {1000}, {0, 400}, {0})

NextHistory == Run(1, HistoryForms, TRUE)

SpecHistory == Init /\ [][NextHistory]_vars

\* One date, three slots, and the amounts that matter to the ledger: a rate
\* whose half hour is not a whole amount, a negative rate, payments above
\* the charges.
LedgerForms ==
    Forms({Date(10)}, {SlotAt(i) : i \in 40..42}, {1000, 1001, -1001},
          {0, 400}, {0, 700})

NextLedger == Run(1, LedgerForms, FALSE)

SpecLedger == Init /\ [][NextLedger]_vars

\* check_overlap called on its own: any frame of up to two rows (valid
\* intervals, overlapping or not) and any candidate with start before end,
\* on the slots 09:00, 10:00, 10:30, 11:00, 11:30 and 12:00.
OverlapSlots == {SlotAt(i) : i \in {18, 20, 21, 22, 23, 24}}

OverlapForms ==
    {f \in Forms({Date(10), Date(11)}, OverlapSlots, {1000}, {0}, {0}) :
        strptime_HM(f.start) < strptime_HM(f.end)}

OverlapFrames ==
    {EmptyFrame}
    \cup {added_frame(EmptyFrame, f) : f \in OverlapForms}
    \cup {added_frame(added_frame(EmptyFrame, f), g) :
            f \in OverlapForms, g \in OverlapForms}

InitOverlap ==
    /\ sheet = <<>>
    /\ df = [s \in Sessions |-> EmptyFrame]
    /\ pc = [s \in Sessions |-> "idle"]
    /\ session_state = [s \in Sessions |-> init_session_state]
    /\ shown = [s \in Sessions |-> "None"]
    /\ retired = {}
    /\ \E frame \in OverlapFrames, f \in OverlapForms,
          exclude_id \in {<<>>, <<1>>, <<2>>} :
         args = [frame |-> frame, date_str |-> strftime_Ymd(f.date),
                 start_str |-> f.start, end_str |-> f.end,
                 exclude_id |-> exclude_id]
    /\ ret = <<>>

CallCheckOverlap ==
    /\ ret = <<>>
    /\ ret' = <<check_overlap(args.frame, args.date_str, args.start_str,
                              args.end_str, args.exclude_id)>>
    /\ UNCHANGED <<sheet, df, pc, session_state, shown, retired, args>>

NextOverlap == CallCheckOverlap

SpecOverlap == InitOverlap /\ [][NextOverlap]_vars

\* Two sessions on the one sheet. Nothing orders their runs: a run is a load
\* (GetData) and, as a later step, its handler, so the other session's runs
\* fall between them. conn.read returns the sheet in every run here: what
\* this specification reaches, it reaches by interleaving alone. The two
\* sessions together add at most MaxForms bookings.
TwoForms ==
    Forms({Date(10)}, {SlotAt(i) : i \in 40..42}, {1000}, {0}, {0})

RunTwo(s) ==
    \/ /\ GetData(s)
       /\ df'[s] = get_data([raised |-> FALSE, data |-> sheet])
    \/ EditLookupRaises(s)
    \/ EditRender(s)
    \/ EditCancel(s)
    \/ /\ EditDelete(s)
       /\ retired' = retired \cup {session_state[s].edit_id[1]}
    \/ \E f \in TwoForms : EditSave(s, f)
    \/ \E f \in TwoForms :
         /\ AddSubmit(s, f)
         /\ session_state[1].form_id + session_state[2].form_id < MaxForms
    \/ \E id \in Ids(df[s]) : SelectRow(s, id)
    \/ GridRender(s)

NextTwo == \E s \in Sessions : RunTwo(s)

SpecTwo == Init /\ [][NextTwo]_vars

\* One session on a sheet that was edited by hand: up to MaxBookings
\* bookings on free intervals whose id cells hold negative numbers, zero,
\* positive numbers or no number.
IdCells == {-2, -1, 0, 1, 2, NaN}

IdForms ==
    Forms({Date(10)}, {SlotAt(i) : i \in 40..42}, {1000}, {0}, {0})

\* The k-th hand-edited row: the half hour from slot 43 + k on, id cell c.
IdRow(k, c) ==
    [new_row(EmptyFrame,
             [date |-> Date(10), start |-> SlotAt(43 + k),
              end |-> SlotAt(44 + k), rate |-> 1000, adv |-> 0, bal |-> 0,
              name |-> "Ravi", mobile |-> "9000000001", mode |-> "Cash",
              remarks |-> ""])
       EXCEPT !.id = c]

InitSheetIds ==
    /\ \E n \in 0..MaxBookings : \E cells \in [1..n -> IdCells] :
         sheet = [k \in 1..n |-> IdRow(k, cells[k])]
    /\ df = [s \in Sessions |-> EmptyFrame]
    /\ pc = [s \in Sessions |-> "idle"]
    /\ session_state = [s \in Sessions |-> init_session_state]
    /\ shown = [s \in Sessions |-> "None"]
    /\ retired = {}
    /\ args = <<>>
    /\ ret = <<>>

NextSheetIds == Run(1, IdForms, FALSE)

SpecSheetIds == InitSheetIds /\ [][NextSheetIds]_vars

\* get_time_slots called, and two of its values compared as the handlers
\* and check_overlap compare them: as strings.
InitSlots ==
    /\ sheet = <<>>
    /\ df = [s \in Sessions |-> EmptyFrame]
    /\ pc = [s \in Sessions |-> "idle"]
    /\ session_state = [s \in Sessions |-> init_session_state]
    /\ shown = [s \in Sessions |-> "None"]
    /\ retired = {}
    /\ \E i, j \in 1..Len(get_time_slots) : args = [i |-> i, j |-> j]
    /\ ret = <<>>

CompareSlots ==
    /\ ret = <<>>
    /\ LET time_slots == get_time_slots
           a == time_slots[args.i]
           b == time_slots[args.j]
       IN  ret' = <<[a |-> a, b |-> b, lt |-> str_lt(a, b),
                     gt |-> str_gt(a, b), ge |-> str_ge(a, b)]>>
    /\ UNCHANGED <<sheet, df, pc, session_state, shown, retired, args>>

NextSlots == CompareSlots

SpecSlots == InitSlots /\ [][NextSlots]_vars

\* --------------------------------------------------------- properties

\* Minutes since midnight of an "HH:MM" value.
Minutes(t) == strptime_HM(t)

\* The half-open intervals [s1, e1) and [s2, e2) of two times of day meet.
Intersect(s1, e1, s2, e2) ==
    Minutes(s1) < Minutes(e2) /\ Minutes(s2) < Minutes(e1)

\* C1: with a single session, starting from the empty sheet, no two bookings
\* of the persisted set on the same date have intersecting intervals
\* [start_time, end_time), whatever creates, updates and deletes were made
\* or refused.
C1_NoOverlap ==
    \A i, j \in 1..Len(sheet) :
        (i < j /\ sheet[i].booking_date = sheet[j].booking_date)
        => ~Intersect(sheet[i].start_time, sheet[i].end_time,
                      sheet[j].start_time, sheet[j].end_time)

\* A saved update left two bookings back to back on one date.
C1_Witness ==
    /\ Len(sheet) = 2
    /\ sheet[1].booking_date = sheet[2].booking_date
    /\ sheet[1].end_time = sheet[2].start_time
    /\ session_state[1].success_msg = "Changes Saved"

\* Row i of the frame check_overlap was called with is on the candidate's
\* date, is not the excluded booking, and its interval meets the candidate's.
Conflicts(i) ==
    /\ args.frame[i].booking_date = args.date_str
    /\ args.exclude_id = <<>> \/ args.frame[i].id # args.exclude_id[1]
    /\ Intersect(args.frame[i].start_time, args.frame[i].end_time,
                 args.start_str, args.end_str)

\* Row i is back to back with the candidate, on its date.
BackToBack(i) ==
    /\ args.frame[i].booking_date = args.date_str
    /\ \/ args.frame[i].start_time = args.end_str
       \/ args.frame[i].end_time = args.start_str

\* C2: for a candidate with start < end on the slot grid, check_overlap is
\* True exactly when a booking of the frame on the same date, other than
\* exclude_id, has start < candidate end and end > candidate start (in
\* minutes): a back-to-back neighbour alone admits the candidate, a partial
\* overlap, a containing or a contained booking refuses it.
C2_CheckOverlapExact ==
    ret # <<>> =>
        /\ ret[1] = (\E i \in 1..Len(args.frame) : Conflicts(i))
        /\ (Len(args.frame) = 1 /\ BackToBack(1)) => ret[1] = FALSE

\* [10:00, 11:00) was admitted next to [11:00, 12:00), and the call excluded
\* no booking.
C2_Witness ==
    /\ ret = <<FALSE>>
    /\ Len(args.frame) = 1
    /\ args.frame[1].booking_date = args.date_str
    /\ args.exclude_id = <<>>
    /\ args.start_str = SlotAt(20) /\ args.end_str = SlotAt(22)
    /\ args.frame[1].start_time = SlotAt(22)
    /\ args.frame[1].end_time = SlotAt(24)

\* The widget values f keep the date and the interval of row r.
SameSlot(f, r) ==
    /\ strftime_Ymd(f.date) = r.booking_date
    /\ f.start = r.start_time
    /\ f.end = r.end_time

\* C3: Save Changes never reports an overlap against the booking being
\* edited: it answers "Overlap" only if the new interval meets a booking of
\* the loaded frame on the new date with another id, and saving a booking to
\* the date and interval it already has is accepted.
C3_UpdateSelfExclusion ==
    [][\A f \in BookingForms :
         EditSave(1, f) =>
           LET edit_id == session_state[1].edit_id[1]
               record == df[1][first_index(df[1], edit_id)]
           IN  /\ shown'[1] = "Overlap" =>
                    \E i \in 1..Len(df[1]) :
                        /\ df[1][i].id # edit_id
                        /\ df[1][i].booking_date = strftime_Ymd(f.date)
                        /\ Intersect(df[1][i].start_time, df[1][i].end_time,
                                     f.start, f.end)
               /\ SameSlot(f, record) =>
                    /\ shown'[1] = "None"
                    /\ session_state'[1].success_msg = "Changes Saved"
                    /\ sheet' = [df[1] EXCEPT ![first_index(df[1], edit_id)] =
                                   edited_row(record, f)]]_vars

\* An update was saved while another booking is on the sheet.
C3_Witness ==
    /\ session_state[1].success_msg = "Changes Saved"
    /\ Len(sheet) = 2
    /\ sheet[1].booking_date = sheet[2].booking_date

\* No two rows of the frame have the same id.
UniqueIds(frame) ==
    \A i, j \in 1..Len(frame) : frame[i].id = frame[j].id => i = j

\* C4 as stated: ids are unique in the persisted set, and an id that Delete
\* has removed is never the id of a booking again.
C4_DeletedIdNeverReused ==
    /\ UniqueIds(sheet)
    /\ Ids(sheet) \cap retired = {}

\* C4 as amended: with a single session ids are unique in the persisted set
\* at all times and every create assigns an id greater than every id of the
\* frame it loaded; so a deleted id k comes back only from a create whose
\* frame holds no id >= k (the highest id was deleted).
C4_UniqueAndAboveLoaded ==
    [][/\ UniqueIds(sheet')
       /\ (pc[1] = "run_event"
            /\ session_state'[1].form_id # session_state[1].form_id)
          => /\ sheet' = Append(df[1], sheet'[Len(sheet')])
             /\ \A i \in Ids(df[1]) : i < sheet'[Len(sheet')].id]_vars

\* Booking 2 was deleted and a later create took id 2 again, beside id 1.
C4_Witness ==
    /\ Len(sheet) = 2
    /\ sheet[1].id = 1
    /\ sheet[2].id = 2
    /\ 2 \in retired

\* C5: after N successful creates from the empty sheet and no delete, the
\* ids of the persisted set are exactly 1 .. N (form_id counts the
\* successful creates of the session).
C5_IdsAreOneToN ==
    retired = {} => Ids(sheet) = 1..session_state[1].form_id

\* The scenario of the specification: "20:00", "20:30", "21:00", "21:30".
T2000 == <<50, 48, 58, 48, 48>>

T2030 == <<50, 48, 58, 51, 48>>

T2100 == <<50, 49, 58, 48, 48>>

T2130 == <<50, 49, 58, 51, 48>>

ScenarioForm(start, end, adv) ==
    [date |-> Date(10), start |-> start, end |-> end, rate |-> 1000,
     adv |-> adv, bal |-> 0, name |-> "Ravi", mobile |-> "9000000001",
     mode |-> "Cash", remarks |-> ""]

\* Booking 1 of the scenario with advance_paid adv and remaining_due due:
\* one hour (60 sixtieths) at 1000.
ScenarioRow(adv, due) ==
    [id |-> 1, booking_date |-> <<2024, 1, 10>>, start_time |-> T2000,
     end_time |-> T2100, total_hours |-> 60, rate_per_hour |-> 1000,
     total_charges |-> 1000, booked_by |-> "Ravi",
     mobile_number |-> "9000000001", advance_paid |-> adv,
     advance_mode |-> "Cash", balance_paid |-> 0, balance_mode |-> "Cash",
     remaining_due |-> due, remarks |-> ""]

\* C6: on the frames of the scenario, Create(2024-01-10, 20:00-21:00, rate
\* 1000) on the empty frame writes booking 1 with 1.0 hour, charges 1000 and
\* due 1000; Create(20:30-21:30) beside it is refused for overlap and the
\* sheet stays; Update of booking 1 with advance 400 writes due 600; Delete
\* of booking 1 writes the empty sheet; and the create after that delete
\* gets id 1 again.
C6_Scenario ==
    [][/\ (df[1] = <<>> /\ AddSubmit(1, ScenarioForm(T2000, T2100, 0)))
          => sheet' = <<ScenarioRow(0, 1000)>>
       /\ (df[1] = <<ScenarioRow(0, 1000)>>
            /\ AddSubmit(1, ScenarioForm(T2030, T2130, 0)))
          => (sheet' = sheet /\ sheet = df[1] /\ shown'[1] = "Overlap")
       /\ (df[1] = <<ScenarioRow(0, 1000)>>
            /\ EditSave(1, ScenarioForm(T2000, T2100, 400)))
          => sheet' = <<ScenarioRow(400, 600)>>
       /\ (df[1] = <<ScenarioRow(400, 600)>> /\ EditDelete(1))
          => sheet' = <<>>
       /\ (retired = {1} /\ df[1] = <<>>
            /\ AddSubmit(1, ScenarioForm(T2000, T2100, 0)))
          => (Len(sheet') = 1 /\ sheet'[1].id = 1)]_vars

\* Booking 1 was deleted and the next create wrote the scenario's booking
\* with id 1 again.
C6_Witness ==
    /\ retired = {1}
    /\ sheet = <<ScenarioRow(0, 1000)>>
    /\ session_state[1].form_id = 2
    /\ session_state[1].success_msg = "Booking Added"

\* The update of the scenario was saved: advance 400, due 600.
C6_UpdateReached ==
    /\ sheet = <<ScenarioRow(400, 600)>>
    /\ session_state[1].success_msg = "Changes Saved"

\* The answers of a refused Create or Update.
Refusals == {"End time must be after Start", "Overlap"}

\* C7: a Create or Update that is refused (end not after start, or overlap)
\* leaves the persisted set exactly as it was, and the run ends there: no
\* save, no rerun, no second attempt.
C7_RefusalLeavesSheet ==
    [][(pc[1] = "run_event" /\ shown'[1] \in Refusals)
       => /\ sheet' = sheet
          /\ pc'[1] = "idle"
          /\ session_state'[1].form_id = session_state[1].form_id
          /\ session_state'[1].edit_mode = session_state[1].edit_mode
          /\ session_state'[1].edit_id = session_state[1].edit_id]_vars

\* A booking was refused for overlap while the sheet holds bookings.
C7_Witness ==
    /\ shown[1] = "Overlap"
    /\ Len(sheet) = 2
    /\ pc[1] = "idle"

\* Every row of the frame starts before it ends.
ValidIntervals(frame) ==
    \A i \in 1..Len(frame) :
        Minutes(frame[i].start_time) < Minutes(frame[i].end_time)

\* C8: every booking of the persisted set has start_time < end_time, and a
\* candidate with start >= end is refused with the interval error, not the
\* overlap error, also when check_overlap would flag it, and nothing is
\* written.
C8_IntervalOrder ==
    [][/\ ValidIntervals(sheet')
       /\ \A f \in BookingForms :
            (/\ Minutes(f.start) >= Minutes(f.end)
             /\ AddSubmit(1, f) \/ EditSave(1, f))
            => /\ shown'[1] = "End time must be after Start"
               /\ sheet' = sheet]_vars

\* An inverted candidate was refused while a booking spans 20:00 - 21:30,
\* which contains every inverted pair of the slots in between.
C8_Witness ==
    /\ shown[1] = "End time must be after Start"
    /\ \E i \in 1..Len(sheet) :
         sheet[i].start_time = T2000 /\ sheet[i].end_time = T2130

\* C9: an Update or Delete run whose edit_id is in no row of the loaded
\* frame answers NotFound as a value and leaves the persisted set unchanged.
C9_AbsentIdIsNotFound ==
    [][(/\ running(1)
        /\ edit_screen(1)
        /\ rows_with_id(df[1], session_state[1].edit_id[1]) = <<>>
        /\ ~running(1)')
       => (shown'[1] = "NotFound" /\ sheet' = sheet)]_vars

\* C10: every booking of the persisted set has total_hours equal to its
\* minutes from start_time to end_time over 60 (kept in sixtieths),
\* total_charges equal to total_hours x rate_per_hour cut to whole currency
\* units (toward zero), and remaining_due equal to total_charges -
\* advance_paid - balance_paid.
C10_DerivedConsistent ==
    \A i \in 1..Len(sheet) :
        LET r == sheet[i]
            mins == Minutes(r.end_time) - Minutes(r.start_time)
            exact == mins * r.rate_per_hour
        IN  /\ r.total_hours = mins
            /\ IF exact >= 0
               THEN 60 * r.total_charges <= exact
                    /\ exact < 60 * (r.total_charges + 1)
               ELSE 60 * (r.total_charges - 1) < exact
                    /\ exact <= 60 * r.total_charges
            /\ r.remaining_due
                 = r.total_charges - r.advance_paid - r.balance_paid

\* An update was saved to half an hour at 1001 (500.5, kept as 500) with
\* 400 + 700 paid.
C10_Witness ==
    /\ session_state[1].success_msg = "Changes Saved"
    /\ \E i \in 1..Len(sheet) :
         /\ sheet[i].total_hours = 30
         /\ sheet[i].rate_per_hour = 1001
         /\ sheet[i].total_charges = 500
         /\ sheet[i].remaining_due = 500 - 400 - 700

\* The derived columns of a row.
Derived(r) == <<r.total_hours, r.total_charges, r.remaining_due>>

\* The run of session s is a Confirm Booking that wrote a row.
CreateStep(s) ==
    /\ pc[s] = "run_event"
    /\ session_state'[s].form_id # session_state[s].form_id

\* The run of session s is a Save Changes that wrote the row.
UpdateStep(s) ==
    /\ pc[s] = "run_event"
    /\ edit_screen(s)
    /\ session_state'[s].success_msg = "Changes Saved"

\* C11: the create path and the update path compute the same total_hours,
\* total_charges and remaining_due from the same start, end, rate, advance
\* and balance: the update computation on a row just created, with that
\* row's own values, returns the row, and the create computation on the
\* values of a row just updated returns its derived columns; and Save
\* Changes with the values the stored booking already has writes the sheet
\* back unchanged, so any number of such saves leaves it unchanged.
C11_SameInBothPaths ==
    [][/\ CreateStep(1) =>
            LET row == sheet'[Len(sheet')]
            IN  edited_row(row, edit_form_defaults(row)) = row
       /\ UpdateStep(1) =>
            LET edit_id == session_state[1].edit_id[1]
                row == sheet'[first_index(df[1], edit_id)]
            IN  Derived(new_row(EmptyFrame, edit_form_defaults(row)))
                  = Derived(row)
       /\ (running(1) /\ edit_screen(1)
            /\ rows_with_id(df[1], session_state[1].edit_id[1]) # <<>>) =>
            LET edit_id == session_state[1].edit_id[1]
                record == df[1][first_index(df[1], edit_id)]
            IN  EditSave(1, edit_form_defaults(record))
                  => (sheet' = sheet /\ sheet' = df[1])]_vars

\* An update was saved on a sheet of two bookings, one at the rate 1001 for
\* half an hour, one at the negative rate.
C11_Witness ==
    /\ session_state[1].success_msg = "Changes Saved"
    /\ Len(sheet) = 2
    /\ \E i \in 1..2 : sheet[i].rate_per_hour = 1001
    /\ \E i \in 1..2 : sheet[i].rate_per_hour = -1001

\* C12: every row of the sheet has rate_per_hour, advance_paid and
\* balance_paid at or above zero, whatever the operator types into the
\* Fees, Advance and Balance Paid inputs.
C12_AmountsNonNegative ==
    \A i \in 1..Len(sheet) :
        /\ sheet[i].rate_per_hour >= 0
        /\ sheet[i].advance_paid >= 0
        /\ sheet[i].balance_paid >= 0

\* The rows of a frame, as a set.
Rows(frame) == {frame[i] : i \in 1..Len(frame)}

\* The run of session s ends in a handler that called save_data.
PersistStep(s) ==
    /\ pc[s] = "run_event"
    /\ pc'[s] = "rerun"
    /\ session_state'[s].success_msg # "None"

\* The row the handler of session s wrote itself in this step.
OwnRows(s) ==
    IF CreateStep(s) THEN {sheet'[Len(sheet')]}
    ELSE IF UpdateStep(s)
    THEN {sheet'[first_index(df[s], session_state[s].edit_id[1])]}
    ELSE {}

\* C13: two sessions load, validate and persist with nothing between them:
\* every persist writes the frame its session loaded with its own change,
\* so a booking the other session persisted after that load is gone from
\* the sheet (or back to its loaded values) though nobody deleted or edited
\* it; the witness is a sheet that lost an accepted booking that way.
C13_PersistWritesLoadedFrame ==
    [][\A s \in Sessions :
         PersistStep(s) =>
           /\ Rows(sheet') \subseteq Rows(df[s]) \cup OwnRows(s)
           /\ \A r \in Rows(sheet) \ Rows(df[s]) :
                r \in Rows(sheet') => r \in OwnRows(s)]_vars

\* Each session had one Confirm Booking accepted, no Delete ever ran, and
\* the sheet holds one booking.
C13_Witness ==
    /\ session_state[1].form_id = 1
    /\ session_state[2].form_id = 1
    /\ retired = {}
    /\ Len(sheet) = 1

\* Two rows are on one date and their intervals meet.
RowsMeet(r1, r2) ==
    /\ r1.booking_date = r2.booking_date
    /\ Intersect(r1.start_time, r1.end_time, r2.start_time, r2.end_time)

\* No two rows of the frame meet.
OverlapFree(frame) ==
    \A i, j \in 1..Len(frame) : i < j => ~RowsMeet(frame[i], frame[j])

DeleteStep(s) ==
    /\ pc[s] = "run_event"
    /\ edit_screen(s)
    /\ session_state'[s].success_msg = "Record Deleted"

\* C15: a saved update rewrites the one booking with the edited id, keeps
\* that booking's id and its place, and leaves every other booking of the
\* sheet as it was in every field; a delete takes the one booking with the
\* given id out of the sheet and leaves every other booking, and their
\* order, as they were.
C15_OnlyTheNamedBooking ==
    [][LET edit_id == session_state[1].edit_id[1]
       IN  /\ UpdateStep(1) =>
                /\ Len(sheet') = Len(sheet)
                /\ \A i \in 1..Len(sheet) :
                     /\ sheet'[i].id = sheet[i].id
                     /\ sheet[i].id # edit_id => sheet'[i] = sheet[i]
           /\ DeleteStep(1) =>
                /\ Len(sheet') = Len(sheet) - 1
                /\ sheet' = SelectSeq(sheet, LAMBDA r : r.id # edit_id)
                /\ \A r \in Rows(sheet) : r.id # edit_id => r \in Rows(sheet')]_vars

\* Booking 1 was deleted from a sheet of two and booking 2 is what is left.
C15_Witness ==
    /\ session_state[1].success_msg = "Record Deleted"
    /\ Len(sheet) = 1
    /\ sheet[1].id = 2

\* The widget values f with nothing paid.
NoPayment(f) == [f EXCEPT !.adv = 0, !.bal = 0]

\* C16: what either form answers on a frame just loaded depends on the date
\* and the interval only, never on the amounts: widget values with advance + balance above the
\* charges get the answer the same values with nothing paid get, so they are
\* accepted whenever the interval checks pass; and the row an accepted
\* Confirm Booking or Save Changes writes has remaining_due = total_charges
\* - advance_paid - balance_paid, below zero when the payments exceed the
\* charges.
C16_OverpaymentAccepted ==
    [][/\ (~running(1) /\ running(1)') =>
            \A f \in LedgerForms :
                /\ add_verdict(df'[1], f) = add_verdict(df'[1], NoPayment(f))
                /\ edit_screen(1) =>
                     edit_verdict(df'[1], session_state[1].edit_id[1], f)
                       = edit_verdict(df'[1], session_state[1].edit_id[1],
                                      NoPayment(f))
       /\ (CreateStep(1) \/ UpdateStep(1)) =>
            \A r \in OwnRows(1) :
                /\ r.remaining_due
                     = r.total_charges - r.advance_paid - r.balance_paid
                /\ r.advance_paid + r.balance_paid > r.total_charges
                     => r.remaining_due < 0]_vars

\* A booking of half an hour at 1000 was accepted with 400 + 700 paid:
\* charges 500, due -600.
C16_Witness ==
    /\ session_state[1].success_msg = "Booking Added"
    /\ \E i \in 1..Len(sheet) :
         /\ sheet[i].total_charges = 500
         /\ sheet[i].advance_paid = 400
         /\ sheet[i].balance_paid = 700
         /\ sheet[i].remaining_due = -600

\* C17: whatever ids the loaded frame holds (zero, negative, or 0 for a
\* cell that held no number), the id an accepted Confirm Booking assigns is
\* a positive integer and differs from every id of the frame.
C17_NewIdPositiveAndFresh ==
    [][CreateStep(1) =>
         LET new_id == sheet'[Len(sheet')].id
         IN  /\ new_id > 0
             /\ new_id \notin Ids(df[1])]_vars

\* The characters of t are two digits, a colon, two digits.
ZeroPadded(t) ==
    /\ Len(t) = 5
    /\ t[3] = 58
    /\ \A n \in {1, 2, 4, 5} : t[n] \in 48..57

\* C18: get_time_slots returns 48 values, the k-th being the zero-padded
\* HH:MM of 30 * (k - 1) minutes after midnight, so from 00:00 to 23:30 in
\* strictly increasing half-hour steps; and for every two of them the
\* string comparisons <, > and >= give what comparing their minutes since
\* midnight gives.
C18_SlotsOrderedAsStrings ==
    /\ Len(get_time_slots) = 48
    /\ \A k \in 1..Len(get_time_slots) :
         /\ ZeroPadded(get_time_slots[k])
         /\ Minutes(get_time_slots[k]) = 30 * (k - 1)
    /\ ret # <<>> =>
         /\ ret[1].lt = (Minutes(ret[1].a) < Minutes(ret[1].b))
         /\ ret[1].gt = (Minutes(ret[1].a) > Minutes(ret[1].b))
         /\ ret[1].ge = (Minutes(ret[1].a) >= Minutes(ret[1].b))

\* 09:30 and 10:00 were compared: the characters differ in the first place.
C18_Witness ==
    /\ ret # <<>>
    /\ Minutes(ret[1].a) = 570
    /\ Minutes(ret[1].b) = 600
    /\ ret[1].lt

\* C19: whatever get_data returned (the sheet, the empty frame of an empty
\* sheet, the empty frame of the except branch), an accepted Confirm Booking
\* leaves every booking the sheet held in the sheet, unchanged and in place,
\* and adds exactly one booking.
C19_CreateKeepsEveryBooking ==
    [][CreateStep(1) =>
         /\ Len(sheet') = Len(sheet) + 1
         /\ \A i \in 1..Len(sheet) : sheet'[i] = sheet[i]]_vars

\* The run of session s is a Cancel.
CancelStep(s) ==
    /\ pc[s] = "run_event"
    /\ edit_screen(s)
    /\ pc'[s] = "rerun"
    /\ session_state'[s].success_msg = "None"

\* The run of session s is a Save Changes that was refused.
RefusedSaveStep(s) ==
    /\ pc[s] = "run_event"
    /\ edit_screen(s)
    /\ shown'[s] \in {"End time must be after Start", "Overlap"}

\* C20: whenever a run of a session finds edit_mode set, edit_id is not
\* None and is the id of a booking of the frame the run loaded, so the edit
\* form is drawn; Cancel, Delete and an accepted Save Changes set edit_mode
\* to False and edit_id to None, a refused Save Changes leaves both.
C20_EditModeNamesLoadedBooking ==
    [][/\ (running(1) /\ session_state[1].edit_mode) =>
            /\ session_state[1].edit_id # <<>>
            /\ session_state[1].edit_id[1] \in Ids(df[1])
       /\ (CancelStep(1) \/ DeleteStep(1) \/ UpdateStep(1)) =>
            /\ ~session_state'[1].edit_mode
            /\ session_state'[1].edit_id = <<>>
       /\ RefusedSaveStep(1) =>
            /\ session_state'[1].edit_mode = session_state[1].edit_mode
            /\ session_state'[1].edit_id = session_state[1].edit_id]_vars

====
